---------------------------- MODULE Spec2Model ----------------------------
(***************************************************************************)
(* State-machine models of three independent components of the CodeBook    *)
(* repository:                                                             *)
(*   - SegTree        (generic point-update segment tree)                  *)
(*   - DSU            (union-find, path compression + union by size)       *)
(*   - CycleDetector  (3-colour DFS cycle finder, directed / undirected)   *)
(* Each component has its own variables and its own specification; the     *)
(* variables of the other components stay at their initial values.         *)
(***************************************************************************)
EXTENDS Integers, Sequences, FiniteSets

VARIABLES
    \* ---- SegTree ----
    status,     \* "unbuilt" | "ready" | "crashed" | "corrupted"
    policy,     \* which (IDENTITY, merge) pair the two editable lines hold;
                \* fixed when the program is compiled
    n,          \* SegTree::n
    t,          \* SegTree::t, a function on 0 .. 4n-1
    arr,        \* ghost: the array the tree is meant to represent
    written,    \* ghost: the slots of t that build has assigned
    lastOp,     \* ghost: the last call, its arguments, result and accesses
    \* ---- DSU ----
    parent,     \* DSU::parent, a function on 0 .. n-1
    sz,         \* DSU::sz
    related,    \* ghost: the equivalence generated by the pairs united so far
    dsuOp,      \* ghost: the last call, its arguments and result
    \* ---- CycleDetector ----
    num_nodes,      \* CycleDetector::n
    is_undirected,  \* CycleDetector::is_undirected
    adj,            \* CycleDetector::adj, a function on 0 .. n-1 of sequences
    color,          \* CycleDetector::color (0 white, 1 gray, 2 black)
    dfs_parent,     \* CycleDetector::parent
    cycle_start,    \* CycleDetector::cycle_start
    cycle_end,      \* CycleDetector::cycle_end
    edges,          \* ghost: the pairs passed to add_edge, in call order
    result,         \* ghost: the vector the last find_cycle returned
    returned        \* ghost: TRUE while result describes the current graph
                    \* (find_cycle was the last call)

segvars == <<status, policy, n, t, arr, written, lastOp>>
dsuvars == <<parent, sz, related, dsuOp>>
cycvars == <<num_nodes, is_undirected, adj, color, dfs_parent, cycle_start,
             cycle_end, edges, result, returned>>

vars == <<segvars, dsuvars, cycvars>>

(***************************************************************************)
(* Bounds of the model.                                                    *)
(***************************************************************************)
MaxN == 3          \* longest input array
MaxVal == 2        \* array elements and update values range over 0 .. MaxVal
MaxElems == 5      \* largest DSU
MaxNodes == 3      \* largest graph
MaxEdges == 3      \* most add_edge calls on one graph

\* Array elements and update values.  They are small enough that no sum of
\* MaxN of them leaves the range of long long.
Vals == 0 .. MaxVal

(***************************************************************************)
(* SegTree                                                                 *)
(***************************************************************************)

\* Stand-in for LLONG_MAX, the identity the source prescribes for min; it is
\* larger than every value of Vals (TLC integers are 32 bits wide).
Sentinel == 2147483647

\* The aggregates the source names ("sum", "min") plus a non-commutative
\* one: "first" keeps the left operand unless it is the identity.
Policies == {"sum", "min", "first"}

IDENTITY == IF policy = "min" THEN Sentinel ELSE 0

merge(a, b) ==
    CASE policy = "sum" -> a + b
      [] policy = "min" -> IF a < b THEN a ELSE b
      [] OTHER          -> IF a = IDENTITY THEN b ELSE a

\* C++ integer division by two truncates toward zero.
Half(x) == IF x >= 0 THEN x \div 2 ELSE -((-x) \div 2)

\* A split that cuts off the leftmost element only.
MidLeftmost(tl, tr) == tl

\* int tm = tl + (tr - tl) / 2
Mid(tl, tr) == tl + Half(tr - tl)

\* Storage for exactly the 2N-1 nodes of the tree, slot 0 included.
TreeSizeExact(len) == 2 * len - 1

\* t.resize(4 * n)
TreeSize(len) == 4 * len

\* An access t[v] is inside the vector iff v is in its domain.
InT(tree, v) == v \in DOMAIN tree
InA(a, i) == i \in DOMAIN a

(* build: s = [t, written, acc, oob].  acc collects every index of t the   *)
(* call reads or writes, oob the accesses that fall outside a vector.      *)
(* An out-of-bounds access is undefined behaviour: the walk stops there    *)
(* and the caller chooses among the outcomes.                              *)
RECURSIVE build(_, _, _, _, _)
build(s, a, v, tl, tr) ==
    IF s.oob # {} THEN s
    ELSE IF tl = tr THEN
        IF ~InT(s.t, v) \/ ~InA(a, tl)
        THEN [s EXCEPT !.acc = @ \cup {v},
                       !.oob = @ \cup (IF InT(s.t, v) THEN {} ELSE {<<"t", v>>})
                                 \cup (IF InA(a, tl) THEN {} ELSE {<<"a", tl>>})]
        ELSE [s EXCEPT !.t[v] = a[tl], !.written = @ \cup {v}, !.acc = @ \cup {v}]
    ELSE
        LET tm == Mid(tl, tr)
            s1 == build(s, a, v * 2, tl, tm)
            s2 == build(s1, a, v * 2 + 1, tm + 1, tr)
            used == {v, v * 2, v * 2 + 1}
            bad == {<<"t", i>> : i \in {j \in used : ~InT(s2.t, j)}}
        IN  IF s2.oob # {} THEN s2
            ELSE IF bad # {}
            THEN [s2 EXCEPT !.acc = @ \cup used, !.oob = bad]
            ELSE [s2 EXCEPT !.t[v] = merge(s2.t[v * 2], s2.t[v * 2 + 1]),
                            !.written = @ \cup {v},
                            !.acc = @ \cup used]

\* query_recursive with the two partial results merged right-to-left.
RECURSIVE query_recursive_swapped(_, _, _, _, _, _)
query_recursive_swapped(tree, v, tl, tr, l, r) ==
    IF l > r THEN [res |-> IDENTITY, acc |-> {}, oob |-> {}]
    ELSE IF l = tl /\ r = tr THEN
        IF InT(tree, v)
        THEN [res |-> tree[v], acc |-> {v}, oob |-> {}]
        ELSE [res |-> IDENTITY, acc |-> {v}, oob |-> {<<"t", v>>}]
    ELSE
        LET tm == Mid(tl, tr)
            left_res == query_recursive_swapped(tree, v * 2, tl, tm,
                                                l, IF r < tm THEN r ELSE tm)
            right_res == query_recursive_swapped(tree, v * 2 + 1, tm + 1, tr,
                                                 IF l > tm + 1 THEN l ELSE tm + 1, r)
        IN  [res |-> merge(right_res.res, left_res.res),
             acc |-> left_res.acc \cup right_res.acc,
             oob |-> left_res.oob \cup right_res.oob]

(* query_recursive: returns [res, acc, oob].                               *)
RECURSIVE query_recursive(_, _, _, _, _, _)
query_recursive(tree, v, tl, tr, l, r) ==
    IF l > r THEN [res |-> IDENTITY, acc |-> {}, oob |-> {}]
    ELSE IF l = tl /\ r = tr THEN
        IF InT(tree, v)
        THEN [res |-> tree[v], acc |-> {v}, oob |-> {}]
        ELSE [res |-> IDENTITY, acc |-> {v}, oob |-> {<<"t", v>>}]
    ELSE
        LET tm == Mid(tl, tr)
            left_res == query_recursive(tree, v * 2, tl, tm,
                                        l, IF r < tm THEN r ELSE tm)
            right_res == query_recursive(tree, v * 2 + 1, tm + 1, tr,
                                         IF l > tm + 1 THEN l ELSE tm + 1, r)
        IN  [res |-> merge(left_res.res, right_res.res),
             acc |-> left_res.acc \cup right_res.acc,
             oob |-> left_res.oob \cup right_res.oob]

\* update_recursive descending left only when pos < tm.
RECURSIVE update_recursive_strict(_, _, _, _, _, _)
update_recursive_strict(s, v, tl, tr, pos, new_val) ==
    IF s.oob # {} THEN s
    ELSE IF tl = tr THEN
        IF InT(s.t, v)
        THEN [s EXCEPT !.t[v] = new_val, !.acc = @ \cup {v}]
        ELSE [s EXCEPT !.acc = @ \cup {v}, !.oob = {<<"t", v>>}]
    ELSE
        LET tm == Mid(tl, tr)
            s1 == IF pos < tm
                  THEN update_recursive_strict(s, v * 2, tl, tm, pos, new_val)
                  ELSE update_recursive_strict(s, v * 2 + 1, tm + 1, tr, pos, new_val)
            used == {v, v * 2, v * 2 + 1}
            bad == {<<"t", i>> : i \in {j \in used : ~InT(s1.t, j)}}
        IN  IF s1.oob # {} THEN s1
            ELSE IF bad # {}
            THEN [s1 EXCEPT !.acc = @ \cup used, !.oob = bad]
            ELSE [s1 EXCEPT !.t[v] = merge(s1.t[v * 2], s1.t[v * 2 + 1]),
                            !.acc = @ \cup used]

(* update_recursive: s = [t, acc, oob].                                    *)
RECURSIVE update_recursive(_, _, _, _, _, _)
update_recursive(s, v, tl, tr, pos, new_val) ==
    IF s.oob # {} THEN s
    ELSE IF tl = tr THEN
        IF InT(s.t, v)
        THEN [s EXCEPT !.t[v] = new_val, !.acc = @ \cup {v}]
        ELSE [s EXCEPT !.acc = @ \cup {v}, !.oob = {<<"t", v>>}]
    ELSE
        LET tm == Mid(tl, tr)
            s1 == IF pos <= tm
                  THEN update_recursive(s, v * 2, tl, tm, pos, new_val)
                  ELSE update_recursive(s, v * 2 + 1, tm + 1, tr, pos, new_val)
            used == {v, v * 2, v * 2 + 1}
            bad == {<<"t", i>> : i \in {j \in used : ~InT(s1.t, j)}}
        IN  IF s1.oob # {} THEN s1
            ELSE IF bad # {}
            THEN [s1 EXCEPT !.acc = @ \cup used, !.oob = bad]
            ELSE [s1 EXCEPT !.t[v] = merge(s1.t[v * 2], s1.t[v * 2 + 1]),
                            !.acc = @ \cup used]

\* SegTree::query and SegTree::update, as functions of a tree.
query(tree, len, l, r) == query_recursive(tree, 1, 0, len - 1, l, r)

update(tree, len, pos, new_val) ==
    update_recursive([t |-> tree, acc |-> {}, oob |-> {}], 1, 0, len - 1, pos, new_val)

NoOp == [op |-> "none", x |-> 0, y |-> 0, val |-> 0, res |-> 0,
         acc |-> {}, oob |-> {}]

\* What may follow undefined behaviour: the process dies, or it goes on with
\* memory it does not own overwritten.
UBOutcomes == {"crashed", "corrupted"}

(* SegTree::SegTree(a): n = a.size(); t.resize(4 * n); build(a, 1, 0, n-1) *)
Construct(a) ==
    /\ status = "unbuilt"
    /\ UNCHANGED policy
    /\ LET len == Len(a)
           a0 == [i \in 0 .. len - 1 |-> a[i + 1]]
           t0 == [i \in 0 .. TreeSize(len) - 1 |-> 0]
           s == build([t |-> t0, written |-> {}, acc |-> {}, oob |-> {}],
                      a0, 1, 0, len - 1)
       IN  /\ n' = len
           /\ arr' = a0
           /\ t' = s.t
           /\ written' = s.written
           /\ lastOp' = [NoOp EXCEPT !.op = "construct", !.acc = s.acc,
                                     !.oob = s.oob]
           /\ IF s.oob = {} THEN status' = "ready"
                            ELSE status' \in UBOutcomes

(* SegTree::query(l, r) *)
Query(l, r) ==
    /\ status = "ready"
    /\ LET q == query(t, n, l, r)
       IN  /\ lastOp' = [NoOp EXCEPT !.op = "query", !.x = l, !.y = r,
                                     !.res = q.res, !.acc = q.acc, !.oob = q.oob]
           /\ IF q.oob = {} THEN status' = "ready"
                            ELSE status' \in UBOutcomes
    /\ UNCHANGED <<policy, n, t, arr, written>>

(* SegTree::update(pos, new_val) with 0 <= pos <= n-1 *)
Update(pos, new_val) ==
    /\ status = "ready"
    /\ pos \in 0 .. n - 1
    /\ LET s == update(t, n, pos, new_val)
       IN  /\ t' = s.t
           /\ lastOp' = [NoOp EXCEPT !.op = "update", !.x = pos, !.val = new_val,
                                     !.acc = s.acc, !.oob = s.oob]
           /\ IF s.oob = {} THEN status' = "ready"
                            ELSE status' \in UBOutcomes
    /\ arr' = [arr EXCEPT ![pos] = new_val]
    /\ UNCHANGED <<policy, n, written>>

(* SegTree::update(pos, new_val) with pos outside 0 .. n-1.  The source     *)
(* checks nothing; the conceptual array has no such position.              *)
UpdateOutOfRange(pos, new_val) ==
    /\ status = "ready"
    /\ pos \notin 0 .. n - 1
    /\ LET s == update(t, n, pos, new_val)
       IN  /\ t' = s.t
           /\ lastOp' = [NoOp EXCEPT !.op = "update", !.x = pos, !.val = new_val,
                                     !.acc = s.acc, !.oob = s.oob]
           /\ IF s.oob = {} THEN status' = "ready"
                            ELSE status' \in UBOutcomes
    /\ UNCHANGED <<policy, n, arr, written>>

(***************************************************************************)
(* DSU                                                                     *)
(***************************************************************************)

(* find_set(v) with path compression: returns the representative and the   *)
(* parent vector after the call.                                          *)
RECURSIVE find_set(_, _)
find_set(p, v) ==
    IF v = p[v] THEN [parent |-> p, res |-> v]
    ELSE LET r == find_set(p, p[v])
         IN  [parent |-> [r.parent EXCEPT ![v] = r.res], res |-> r.res]

\* union_sets hanging the element b itself, not its representative, under a.
union_sets_no_root(p, s, a0, b0) ==
    LET fa == find_set(p, a0)
        fb == find_set(fa.parent, b0)
        p2 == fb.parent
    IN  IF fa.res # fb.res
        THEN LET a == IF s[fa.res] < s[fb.res] THEN fb.res ELSE fa.res
                 b == IF s[fa.res] < s[fb.res] THEN fa.res ELSE fb.res
             IN  [parent |-> [p2 EXCEPT ![b0] = a],
                  sz |-> [s EXCEPT ![a] = s[a] + s[b]]]
        ELSE [parent |-> p2, sz |-> s]

\* union_sets counting one element, not the whole absorbed set.
union_sets_plus_one(p, s, a0, b0) ==
    LET fa == find_set(p, a0)
        fb == find_set(fa.parent, b0)
        p2 == fb.parent
    IN  IF fa.res # fb.res
        THEN LET a == IF s[fa.res] < s[fb.res] THEN fb.res ELSE fa.res
                 b == IF s[fa.res] < s[fb.res] THEN fa.res ELSE fb.res
             IN  [parent |-> [p2 EXCEPT ![b] = a],
                  sz |-> [s EXCEPT ![a] = s[a] + 1]]
        ELSE [parent |-> p2, sz |-> s]

(* union_sets(a, b): returns the parent and sz vectors after the call.     *)
union_sets(p, s, a0, b0) ==
    LET fa == find_set(p, a0)
        fb == find_set(fa.parent, b0)
        p2 == fb.parent
    IN  IF fa.res # fb.res
        THEN LET a == IF s[fa.res] < s[fb.res] THEN fb.res ELSE fa.res
                 b == IF s[fa.res] < s[fb.res] THEN fa.res ELSE fb.res
             IN  [parent |-> [p2 EXCEPT ![b] = a],
                  sz |-> [s EXCEPT ![a] = s[a] + s[b]]]
        ELSE [parent |-> p2, sz |-> s]

Elems == DOMAIN parent

\* The least equivalence relation that contains the equivalence R on S and
\* the pair <<a, b>>: the classes of a and b become one class.
Unite(R, S, a, b) ==
    LET C == {x \in S : <<x, a>> \in R \/ <<x, b>> \in R}
    IN  R \cup (C \X C)

\* The last call: for find_set its argument v, the value returned and whether
\* the call rewrote a parent entry; for union_sets only that it happened.
DsuNoOp == [op |-> "none", v |-> 0, res |-> 0, compressed |-> FALSE]

(* DSU::DSU(n): parent = 0, 1, ..., n-1; sz = 1, ..., 1 *)
DsuStart ==
    \E k \in 1 .. MaxElems :
        /\ parent = [i \in 0 .. k - 1 |-> i]
        /\ sz = [i \in 0 .. k - 1 |-> 1]
        /\ related = {<<i, i>> : i \in 0 .. k - 1}
        /\ dsuOp = DsuNoOp

DsuIdle ==
    /\ parent = << >>
    /\ sz = << >>
    /\ related = {}
    /\ dsuOp = DsuNoOp

(* DSU::find_set(v) *)
FindSet(v) ==
    /\ v \in Elems
    /\ LET f == find_set(parent, v)
       IN  /\ parent' = f.parent
           /\ dsuOp' = [DsuNoOp EXCEPT !.op = "find_set", !.v = v, !.res = f.res,
                                        !.compressed = (f.parent # parent)]
    /\ UNCHANGED <<sz, related>>

(* DSU::union_sets(a, b) *)
UnionSets(a, b) ==
    /\ a \in Elems
    /\ b \in Elems
    /\ LET u == union_sets(parent, sz, a, b)
       IN  /\ parent' = u.parent
           /\ sz' = u.sz
           /\ dsuOp' = [DsuNoOp EXCEPT !.op = "union_sets"]
    /\ related' = Unite(related, Elems, a, b)

DsuFind ==
    /\ \E v \in 0 .. MaxElems - 1 : FindSet(v)
    /\ UNCHANGED <<segvars, cycvars>>
DsuUnion ==
    /\ \E a \in 0 .. MaxElems - 1, b \in 0 .. MaxElems - 1 : UnionSets(a, b)
    /\ UNCHANGED <<segvars, cycvars>>

(***************************************************************************)
(* CycleDetector                                                           *)
(***************************************************************************)

\* An int member that no constructor initialises; reading it before
\* find_cycle assigns it would compare this string with a number.
Indeterminate == "indeterminate"

Reverse(q) == [i \in 1 .. Len(q) |-> q[Len(q) + 1 - i]]

(* dfs(v, p): st = [color, parent, cycle_start, cycle_end, ret], ret the   *)
(* value the call returns.  dfs_from(st, v, p, i) is the loop over adj[v]  *)
(* from its i-th entry on.                                                 *)
RECURSIVE dfs(_, _, _)
RECURSIVE dfs_from(_, _, _, _)
dfs_from(st, v, p, i) ==
    IF i > Len(adj[v]) THEN [st EXCEPT !.color[v] = 2, !.ret = FALSE]
    ELSE LET u == adj[v][i]
         IN  IF is_undirected /\ u = p THEN dfs_from(st, v, p, i + 1)
             ELSE IF st.color[u] = 0
                  THEN LET r == dfs(st, u, v)
                       IN  IF r.ret THEN r ELSE dfs_from(r, v, p, i + 1)
             ELSE IF st.color[u] = 1
                  THEN [st EXCEPT !.cycle_end = v, !.cycle_start = u, !.ret = TRUE]
             ELSE dfs_from(st, v, p, i + 1)

dfs(st, v, p) ==
    dfs_from([st EXCEPT !.color[v] = 1, !.parent[v] = p], v, p, 1)

\* The loop of find_cycle over the start nodes v, v+1, ..., n-1.
RECURSIVE scan(_, _)
scan(st, v) ==
    IF v >= num_nodes THEN st
    ELSE IF st.color[v] = 0
         THEN LET r == dfs(st, v, -1)
              IN  IF r.ret THEN r ELSE scan(r, v + 1)
         ELSE scan(st, v + 1)

\* for (v = cycle_end; v != cycle_start; v = parent[v]) cycle.push_back(v)
RECURSIVE walk_back(_, _)
walk_back(st, v) ==
    IF v = st.cycle_start THEN << >>
    ELSE <<v>> \o walk_back(st, st.parent[v])

(* find_cycle(): the members after the call and the returned vector.       *)
find_cycle ==
    LET st0 == [color |-> [i \in 0 .. num_nodes - 1 |-> 0],
                parent |-> [i \in 0 .. num_nodes - 1 |-> -1],
                cycle_start |-> -1,
                cycle_end |-> cycle_end,
                ret |-> FALSE]
        st == scan(st0, 0)
    IN  [st |-> st,
         cycle |-> IF st.cycle_start = -1 THEN << >>
                   ELSE Reverse(<<st.cycle_start>>
                                \o walk_back(st, st.cycle_end)
                                \o <<st.cycle_start>>)]

(* CycleDetector(num_nodes, undirected): adj.resize(n) *)
CycStart ==
    /\ num_nodes \in 1 .. MaxNodes
    /\ is_undirected \in BOOLEAN
    /\ adj = [i \in 0 .. num_nodes - 1 |-> << >>]
    /\ color = << >>
    /\ dfs_parent = << >>
    /\ cycle_start = Indeterminate
    /\ cycle_end = Indeterminate
    /\ edges = << >>
    /\ result = << >>
    /\ returned = FALSE

CycIdle ==
    /\ num_nodes = 0
    /\ is_undirected = FALSE
    /\ adj = << >>
    /\ color = << >>
    /\ dfs_parent = << >>
    /\ cycle_start = Indeterminate
    /\ cycle_end = Indeterminate
    /\ edges = << >>
    /\ result = << >>
    /\ returned = FALSE

(* CycleDetector::add_edge(u, v) *)
AddEdge(u, v) ==
    /\ Len(edges) < MaxEdges
    /\ u \in 0 .. num_nodes - 1
    /\ v \in 0 .. num_nodes - 1
    /\ adj' = IF is_undirected
              THEN LET a1 == [adj EXCEPT ![u] = Append(@, v)]
                   IN  [a1 EXCEPT ![v] = Append(@, u)]
              ELSE [adj EXCEPT ![u] = Append(@, v)]
    /\ edges' = Append(edges, <<u, v>>)
    /\ returned' = FALSE
    /\ UNCHANGED result
    /\ UNCHANGED <<num_nodes, is_undirected, color, dfs_parent, cycle_start, cycle_end>>

(* CycleDetector::find_cycle() *)
FindCycle ==
    /\ LET f == find_cycle
       IN  /\ color' = f.st.color
           /\ dfs_parent' = f.st.parent
           /\ cycle_start' = f.st.cycle_start
           /\ cycle_end' = f.st.cycle_end
           /\ result' = f.cycle
           /\ returned' = TRUE
    /\ UNCHANGED <<num_nodes, is_undirected, adj, edges>>

CycAddEdge ==
    /\ \E u \in 0 .. MaxNodes - 1, v \in 0 .. MaxNodes - 1 : AddEdge(u, v)
    /\ UNCHANGED <<segvars, dsuvars>>
CycFindCycle ==
    /\ FindCycle
    /\ UNCHANGED <<segvars, dsuvars>>

Arrays(lo) == UNION {[1 .. k -> Vals] : k \in lo .. MaxN}

SegIdle ==
    /\ status = "unbuilt"
    /\ policy = "sum"
    /\ n = 0
    /\ t = << >>
    /\ arr = << >>
    /\ written = {}
    /\ lastOp = NoOp

SegStart ==
    /\ status = "unbuilt"
    /\ policy \in Policies
    /\ n = 0
    /\ t = << >>
    /\ arr = << >>
    /\ written = {}
    /\ lastOp = NoOp

SegConstruct ==
    /\ \E a \in Arrays(1) : Construct(a)
    /\ UNCHANGED <<dsuvars, cycvars>>
SegConstructAny ==
    /\ \E a \in Arrays(0) : Construct(a)
    /\ UNCHANGED <<dsuvars, cycvars>>
SegQuery ==
    /\ \E l \in 0 .. MaxN - 1, r \in 0 .. MaxN - 1 : l < n /\ r < n /\ Query(l, r)
    /\ UNCHANGED <<dsuvars, cycvars>>
SegUpdate ==
    /\ \E pos \in 0 .. MaxN - 1, v \in Vals : Update(pos, v)
    /\ UNCHANGED <<dsuvars, cycvars>>
SegUpdateOutOfRange ==
    /\ \E pos \in {-2, -1} \cup (1 .. MaxN + 1), v \in Vals :
           pos <= n + 1 /\ UpdateOutOfRange(pos, v)
    /\ UNCHANGED <<dsuvars, cycvars>>

\* Callers that keep the documented preconditions (N >= 1, valid indices).
SegNext == SegConstruct \/ SegQuery \/ SegUpdate
SegInit == SegStart /\ DsuIdle /\ CycIdle
SegSpec == SegInit /\ [][SegNext]_vars

\* Any caller: also the empty array and out-of-range update positions.
SegAnyNext == SegConstructAny \/ SegQuery \/ SegUpdate \/ SegUpdateOutOfRange
SegAnySpec == SegInit /\ [][SegAnyNext]_vars

(***************************************************************************)
(* SegTree: properties                                                     *)
(***************************************************************************)

\* merge folded left to right over a[l .. r]; the identity when l > r.
RECURSIVE Fold(_, _, _)
Fold(a, l, r) == IF l > r THEN IDENTITY ELSE merge(Fold(a, l, r - 1), a[r])

\* merge folded right to left over a[l .. r].
RECURSIVE FoldRev(_, _, _)
FoldRev(a, l, r) == IF l > r THEN IDENTITY ELSE merge(a[r], FoldRev(a, l, r - 1))

\* The nodes of the decomposition the data model fixes: the root 1 covers
\* [0, N-1], node v covering [tl, tr] with tl < tr has children 2v on
\* [tl, tm] and 2v+1 on [tm+1, tr], tm = tl + (tr - tl) / 2.
RECURSIVE Nodes(_, _, _)
Nodes(v, tl, tr) ==
    IF tl = tr THEN {<<v, tl, tr>>}
    ELSE LET tm == tl + ((tr - tl) \div 2)
         IN  {<<v, tl, tr>>} \cup Nodes(2 * v, tl, tm) \cup Nodes(2 * v + 1, tm + 1, tr)

\* C1: after construction and after every valid update, every node covering
\* [tl, tr] stores the left-to-right merge fold of the current elements
\* tl .. tr.
C1_NodeAggregates ==
    status = "ready" =>
        \A nd \in Nodes(1, 0, n - 1) :
            /\ nd[1] \in DOMAIN t
            /\ t[nd[1]] = Fold(arr, nd[2], nd[3])

\* C1 witness: an update has just rewritten a leaf below an internal node
\* whose aggregate depends on the order of its operands.
C1_Witness ==
    /\ status = "ready"
    /\ lastOp.op = "update"
    /\ n = 3
    /\ policy = "first"
    /\ lastOp.x = 1
    /\ t[2] = arr[0]
    /\ arr[0] # 0 /\ arr[1] # 0 /\ arr[0] # arr[1]
    /\ t[1] = Fold(arr, 0, 2)

\* C2: for all l, r in [0, N-1], query(l, r) returns the left-to-right fold
\* of merge over the current elements l .. r, and the identity when l > r;
\* a recorded query call returned exactly that.
C2_QueryIsFold ==
    status = "ready" =>
        /\ \A l \in 0 .. n - 1, r \in 0 .. n - 1 :
               query(t, n, l, r).res = Fold(arr, l, r)
        /\ \A l \in 0 .. n - 1, r \in 0 .. n - 1 :
               l > r => query(t, n, l, r).res = IDENTITY
        /\ lastOp.op = "query" => lastOp.res = Fold(arr, lastOp.x, lastOp.y)

\* C2 witness: a query under the non-commutative merge whose range is
\* assembled from more than one node and whose right-to-left fold differs.
C2_Witness ==
    /\ status = "ready"
    /\ lastOp.op = "query"
    /\ policy = "first"
    /\ lastOp.x < lastOp.y
    /\ Cardinality(lastOp.acc) >= 2
    /\ lastOp.res = Fold(arr, lastOp.x, lastOp.y)
    /\ lastOp.res # FoldRev(arr, lastOp.x, lastOp.y)

\* C3: a step update(pos, v) leaves query(pos, pos) = v and leaves
\* query(i, i) as it was for every other index i.
C3_UpdateFrame ==
    [][ (status = "ready" /\ lastOp'.op = "update") =>
            /\ query(t', n', lastOp'.x, lastOp'.x).res = lastOp'.val
            /\ \A i \in 0 .. n - 1 :
                   i # lastOp'.x =>
                       query(t', n', i, i).res = query(t, n, i, i).res ]_vars

\* C3 witness: an update has set a position to a value that differs from a
\* neighbour's, and both read back.
C3_Witness ==
    /\ status = "ready"
    /\ lastOp.op = "update"
    /\ n >= 2
    /\ query(t, n, lastOp.x, lastOp.x).res = lastOp.val
    /\ \E i \in 0 .. n - 1 :
           i # lastOp.x /\ query(t, n, i, i).res # lastOp.val

\* C4: constructing from the empty array is rejected or yields a no-op
\* tree: the constructor terminates without reading the input array or
\* writing the tree storage outside their bounds.
C4_EmptyArrayHandled ==
    (lastOp.op = "construct" /\ n = 0) =>
        /\ status \in {"ready", "rejected"}
        /\ lastOp.oob = {}

\* C8: update(pos, v) with pos outside [0, N-1] fails with an explicit error
\* and changes no stored aggregate.
C8_OutOfRangeUpdateRejected ==
    [][ (status = "ready" /\ lastOp'.op = "update" /\ lastOp'.x \notin 0 .. n - 1) =>
            /\ status' = "rejected"
            /\ t' = t ]_vars

\* The second half of C8 alone: an out-of-range update changes no stored
\* aggregate.
C8_AggregatesKept ==
    [][ (status = "ready" /\ lastOp'.op = "update" /\ lastOp'.x \notin 0 .. n - 1) =>
            t' = t ]_vars

\* C9: with valid arguments every slot of the tree storage that build,
\* query and update touch has an index in 1 .. 4N-1 and lies inside the
\* storage, and query reads only slots build has written.
C9_IndicesInStorage ==
    status # "unbuilt" =>
        /\ lastOp.acc \subseteq 1 .. 4 * n - 1
        /\ lastOp.oob = {}
        /\ status = "ready"
        /\ lastOp.op = "query" => lastOp.acc \subseteq written
        /\ written \subseteq 1 .. 4 * n - 1

\* C9 witness: a query that reads two slots, one of them in the deepest
\* level of a three-element tree.
C9_Witness ==
    /\ status = "ready"
    /\ lastOp.op = "query"
    /\ n = 3
    /\ Cardinality(lastOp.acc) >= 2
    /\ \E v \in lastOp.acc : v >= 4

(***************************************************************************)
(* DSU: specification and properties                                       *)
(***************************************************************************)
DsuNext == DsuFind \/ DsuUnion
DsuInit == DsuStart /\ SegIdle /\ CycIdle
DsuSpec == DsuInit /\ [][DsuNext]_vars

\* The representative find_set would return now.
Rep(i) == find_set(parent, i).res

\* related is an equivalence relation on the elements (what Unite relies on).
RelatedIsEquivalence ==
    /\ related \subseteq Elems \X Elems
    /\ \A x \in Elems : <<x, x>> \in related
    /\ \A pr \in related : <<pr[2], pr[1]>> \in related
    /\ \A pr \in related, qr \in related :
           pr[2] = qr[1] => <<pr[1], qr[2]>> \in related

\* C5: find_set(i) = find_set(j) exactly when i and j are related by the
\* equivalence generated by the pairs passed to union_sets so far, and a
\* find_set call returns that representative.
C5_SameSetIffUnited ==
    /\ \A i \in Elems, j \in Elems : (Rep(i) = Rep(j)) <=> (<<i, j>> \in related)
    /\ dsuOp.op = "find_set" => dsuOp.res = Rep(dsuOp.v)

\* C5 witness: a find_set call has just compressed a path in a set of at
\* least three elements, while another set exists.
C5_Witness ==
    /\ dsuOp.op = "find_set"
    /\ dsuOp.compressed
    /\ Cardinality({j \in Elems : Rep(j) = dsuOp.res}) >= 3
    /\ \E j \in Elems : Rep(j) # dsuOp.res

\* C6: sz at the representative of i is the number of elements of the set
\* containing i, and the sizes stored at the representatives sum to n.
RECURSIVE SumSz(_)
SumSz(S) == IF S = {} THEN 0
            ELSE LET x == CHOOSE y \in S : TRUE IN sz[x] + SumSz(S \ {x})

C6_SizeAtRepresentative ==
    /\ \A i \in Elems : sz[Rep(i)] = Cardinality({j \in Elems : Rep(j) = Rep(i)})
    /\ SumSz({Rep(i) : i \in Elems}) = Cardinality(Elems)

\* C6 witness: two sets of two elements each have been united into one of
\* four, whose representative holds 4.
C6_Witness ==
    /\ dsuOp.op = "union_sets"
    /\ Cardinality(Elems) = 4
    /\ \A j \in Elems : Rep(j) = Rep(0)
    /\ sz[Rep(0)] = 4
    /\ \E j \in Elems : parent[j] # Rep(0)

(***************************************************************************)
(* CycleDetector: specification and properties                             *)
(***************************************************************************)
CycNext == CycAddEdge \/ CycFindCycle
CycInit == CycStart /\ SegIdle /\ DsuIdle
CycSpec == CycInit /\ [][CycNext]_vars

\* Added edge number e leads from x to y (in either direction when the
\* graph is undirected).
Joins(e, x, y) ==
    \/ edges[e] = <<x, y>>
    \/ is_undirected /\ edges[e] = <<y, x>>

\* From cur, a walk along added edges not in used, each taken once, comes
\* back to start.
RECURSIVE Closes(_, _, _)
Closes(cur, start, used) ==
    \E e \in (1 .. Len(edges)) \ used :
        \E w \in 0 .. num_nodes - 1 :
            /\ Joins(e, cur, w)
            /\ (w = start \/ Closes(w, start, used \cup {e}))

HasCycle == \E s \in 0 .. num_nodes - 1 : Closes(s, s, {})

\* c = v0, ..., vk with v0 = vk, every consecutive pair an added edge in
\* that direction, and, when undirected, no added edge used twice.
ValidCycle(c) ==
    /\ Len(c) >= 2
    /\ c[1] = c[Len(c)]
    /\ \E f \in [1 .. Len(c) - 1 -> 1 .. Len(edges)] :
           /\ \A i \in 1 .. Len(c) - 1 : Joins(f[i], c[i], c[i + 1])
           /\ is_undirected =>
                  \A i \in 1 .. Len(c) - 1, j \in 1 .. Len(c) - 1 :
                      i # j => f[i] # f[j]

\* C7: find_cycle returns a valid cycle if the graph has one and the empty
\* vector otherwise.
C7_FindCycleCorrect ==
    returned =>
        IF HasCycle THEN ValidCycle(result) ELSE result = << >>

\* C7 restricted to directed graphs.
C7_Directed ==
    (returned /\ ~is_undirected) =>
        IF HasCycle THEN ValidCycle(result) ELSE result = << >>

\* No undirected edge was added twice between the same two distinct nodes.
NoParallelEdges ==
    \A i \in 1 .. Len(edges), j \in 1 .. Len(edges) :
        (i # j /\ edges[i][1] # edges[i][2]) =>
            (edges[j] # edges[i] /\ edges[j] # <<edges[i][2], edges[i][1]>>)

\* C7 restricted to undirected graphs without parallel edges.
C7_UndirectedSimple ==
    (returned /\ is_undirected /\ NoParallelEdges) =>
        IF HasCycle THEN ValidCycle(result) ELSE result = << >>

\* Whatever find_cycle returns non-empty is a valid cycle.
C7_ReturnedCycleValid ==
    (returned /\ result # << >>) => ValidCycle(result)

=============================================================================
